---- MODULE Spec2Model ----
(***************************************************************************)
(* Tomato AI backend: the metered generation gateway, the configuration    *)
(* store and the maintenance gate.                                         *)
(*                                                                         *)
(* The repository holds four snapshots of the same service:                *)
(*   "part_000"  src/unnamed/part_000  (JWT tokens, SELECT ... FOR UPDATE) *)
(*   "part_001"  src/unnamed/part_001  (session tokens, global gate)       *)
(*   "part_002"  src/unnamed/part_002  (deepMerge, operations table)       *)
(*   "server_b"  src/server.js 583-1201 (user id as token)                 *)
(* and src/server.js 237-582, an earlier cut of part_002 whose             *)
(* fetchSettingsFromDB merges shallowly.  The variable `snapshot` says     *)
(* which of them is running; every operation is modelled per snapshot.     *)
(***************************************************************************)
EXTENDS Integers, Sequences, FiniteSets, TLC

(***************************************************************************)
(* JSON / JavaScript values.  Every value is a record of the same shape so *)
(* that any two values can be compared: t is the type tag, n the number    *)
(* (or the identity of an array), kids the own properties of an object.    *)
(***************************************************************************)
NoKids == [k \in {} |-> 0]

Num(n) == [t |-> "num", n |-> n, kids |-> NoKids]

Bool(b) == [t |-> "bool", n |-> IF b THEN 1 ELSE 0, kids |-> NoKids]

\* An array is a leaf for the merge; n tells two arrays apart.
Arr(n) == [t |-> "arr", n |-> n, kids |-> NoKids]

Null == [t |-> "null", n |-> 0, kids |-> NoKids]

Undefined == [t |-> "undefined", n |-> 0, kids |-> NoKids]

Obj(f) == [t |-> "obj", n |-> 0, kids |-> f]

\* o.k in JavaScript, for o an object: undefined when k is no own property.
Prop(o, k) == IF o.t = "obj" /\ k \in DOMAIN o.kids THEN o.kids[k] ELSE Undefined

\* Reading a property of undefined or null throws a TypeError.
Throws(o) == o.t \in {"undefined", "null"}

\* JavaScript truthiness of a value.
Truthy(v) ==
    CASE v.t \in {"undefined", "null"} -> FALSE
      [] v.t \in {"num", "bool"} -> v.n # 0
      [] OTHER -> TRUE

\* a ?? b
Coalesce(a, b) == IF a.t \in {"undefined", "null"} THEN b ELSE a

(***************************************************************************)
(* The compiled-in default document (its pricing, store and maintenance    *)
(* sections; the theme and content sections are cosmetic strings).         *)
(***************************************************************************)
defaultSettings ==
    Obj([costs |-> Obj([imageEdit |-> Num(2),
                        imageCreate |-> Num(5),
                        textToSpeech |-> Num(1),
                        imageEdit_noWatermark |-> Num(8),
                        imageCreate_noWatermark |-> Num(15),
                        contentRewrite |-> Num(1),
                        tweetGenerator |-> Num(1),
                        referralBonus |-> Num(50)]),
         store |-> Obj([packages |-> Arr(0)]),
         maintenance |-> Obj([enabled |-> Bool(FALSE)])])

isObject(item) == item.t = "obj"

RECURSIVE deepMerge(_, _)
deepMerge(defaults, overrides) ==
    Obj([key \in DOMAIN defaults.kids \cup DOMAIN overrides.kids |->
            IF key \in DOMAIN overrides.kids
            THEN IF isObject(overrides.kids[key]) /\ isObject(Prop(defaults, key))
                 THEN deepMerge(defaults.kids[key], overrides.kids[key])
                 ELSE overrides.kids[key]
            ELSE defaults.kids[key]])

\* { ...defaultSettings, ...settings_json } of src/server.js:448.
spreadMerge(defaults, overrides) ==
    Obj([key \in DOMAIN defaults.kids \cup DOMAIN overrides.kids |->
            IF key \in DOMAIN overrides.kids
            THEN overrides.kids[key]
            ELSE defaults.kids[key]])

(***************************************************************************)
(* Bounds of the model.                                                    *)
(***************************************************************************)
\* Metered calls that may be in flight at once.
MaxCalls == 2

\* Administrator writes of the configuration in one behaviour.
MaxPuts == 1

Calls == 1..MaxCalls

Users == {"u1", "adm"}

\* users.is_admin: the first registered user is the administrator.
is_admin(u) == u = "adm"

Snapshots == {"part_000", "part_001", "part_002", "server_b"}

\* The snapshots that price a call on the server; the others debit req.body.cost.
ServerPriced == {"part_000", "part_002"}

\* The checkout sessions of the payment provider and what their metadata
\* carries: the buyer and the points of the package bought.
Sessions == {"cs1", "cs2"}

CheckoutMeta(s) ==
    IF s = "cs1" THEN [user |-> "u1", points |-> 50] ELSE [user |-> "u1", points |-> 20]

NoCheckouts == [s \in Sessions |-> [state |-> "open", delivered |-> 0, credited |-> 0]]

VARIABLES
    snapshot,    \* which snapshot of the service is running
    persisted,   \* settings row id = 1: the stored document, or NoRow
    cache,       \* settingsCache / currentSettings: a document, or Null
    points,      \* users.points as committed, per user: Num(n) or Null
    initial,     \* users.points when the service started (never changes)
    lock,        \* the call holding the row lock of each user, 0 if none
    operations,  \* committed rows of the operations table
    puts,        \* administrator writes done so far
    call,        \* the metered calls, per slot
    session,     \* the users whose bearer token is valid
    reply,       \* the last response to a request that is not a metered call
    docs,        \* merge study: the default and the persisted document
    merged,      \* merge study: the document read on a cache miss
    banned,      \* the users whose status is 'banned'
    checkout,    \* the checkout sessions: state, deliveries and credits so far
    claimed,     \* per user: the daily rewards granted within the last 24 hours
    pending,     \* per getter: the row its getSettings() in flight has read, NoQuery if none
    rows         \* the number of rows of the settings table with id = 1

vars == <<snapshot, rows, pending, banned, checkout, claimed, persisted, cache, points, initial, lock, operations, puts, call,
         session, reply, docs, merged>>

\* What the metered calls leave alone.
frontVars == <<session, reply, docs, merged>>

NoRow == [t |-> "norow", n |-> 0, kids |-> NoKids]

NoQuery == [t |-> "noquery", n |-> 0, kids |-> NoKids]

\* The requests that may be inside getSettings() at the same time.
Getters == {1, 2}

NoQueries == [g \in Getters |-> NoQuery]

\* last_daily_claim is NULL or more than a day old for every user.
NoClaims == [u \in Users |-> 0]

NaN == [t |-> "nan", n |-> 0, kids |-> NoKids]

(***************************************************************************)
(* Documents an administrator may write (req.body of the settings write).  *)
(***************************************************************************)
WithMaintenance(doc) ==
    Obj([k \in DOMAIN doc.kids \cup {"maintenance"} |->
            IF k = "maintenance" THEN Obj([enabled |-> Bool(TRUE)]) ELSE doc.kids[k]])

\* Only the section the administrator edited.
MaintenanceOnly == Obj([maintenance |-> Obj([enabled |-> Bool(TRUE)])])

\* A document stored before the watermark and text prices were introduced.
OldPrices ==
    Obj([costs |-> Obj([imageEdit |-> Num(2), textToSpeech |-> Num(1)]),
         store |-> Obj([packages |-> Arr(0)]),
         maintenance |-> Obj([enabled |-> Bool(FALSE)])])

\* The defaults with one price raised.
NewPrice ==
    Obj([k \in DOMAIN defaultSettings.kids |->
            IF k = "costs"
            THEN Obj([c \in DOMAIN defaultSettings.kids["costs"].kids |->
                         IF c = "imageCreate" THEN Num(7)
                         ELSE defaultSettings.kids["costs"].kids[c]])
            ELSE defaultSettings.kids[k]])

PutDocs == {WithMaintenance(defaultSettings), MaintenanceOnly, OldPrices, NewPrice}

(***************************************************************************)
(* Operation requests: req.body of POST /api/ai/generate.                  *)
(*   type, model : payload.type and what payload.model selects             *)
(*   rw          : req.body.removeWatermark                                *)
(*   len         : payload.contents[0].parts[0].text.length                *)
(*   cost        : req.body.cost (read by part_001 and server_b only)      *)
(***************************************************************************)
Payload(type, model, rw, len, cost) ==
    [type |-> type, model |-> model, rw |-> rw, len |-> len, cost |-> cost]

Bodies ==
    { Payload("generateImages", "imagen", FALSE, 0, 5),
      Payload("generateImages", "imagen", TRUE, 0, 0),
      Payload("generateContent", "image", TRUE, 0, 2),
      Payload("generateContent", "tts", FALSE, 101, 0 - 5),
      Payload("rewrite", "none", FALSE, 0, 1),
      Payload("unknown", "none", FALSE, 0, 0) }

\* What the provider may answer:
\*   ok      a response carrying the payload asked for
\*   blocked promptFeedback.blockReason set, no candidates and no images
\*   empty   no block reason, an empty list of candidates / images
\*   nodata  a candidate / image that carries no payload (finishReason set)
\*   threw   the SDK call rejects (transport or provider error)
\*   safety  the SDK call rejects with a message that contains "SAFETY"
Responses == {"ok", "blocked", "empty", "nodata", "threw", "safety"}

(***************************************************************************)
(* JavaScript and SQL arithmetic on the values above.                      *)
(***************************************************************************)
\* ToNumber: null is 0, undefined and objects are NaN.
ToNumber(v) ==
    CASE v.t \in {"num", "bool"} -> Num(v.n)
      [] v.t = "null" -> Num(0)
      [] OTHER -> NaN

\* a < b in JavaScript: false as soon as one side is NaN.
JsLess(a, b) ==
    /\ ToNumber(a).t = "num"
    /\ ToNumber(b).t = "num"
    /\ ToNumber(a).n < ToNumber(b).n

\* a * b in JavaScript.
JsTimes(a, b) ==
    IF ToNumber(a).t = "num" /\ ToNumber(b).t = "num"
    THEN Num(ToNumber(a).n * ToNumber(b).n)
    ELSE NaN

\* Whole blocks of 100 characters only: the partial block is dropped.
FloorHundred(len) == len \div 100

\* Math.ceil(len / 100)
CeilHundred(len) == (len + 99) \div 100

\* node-postgres sends undefined and null as NULL, NaN as the text 'NaN',
\* which the integer column rejects.
SqlRejects(param) == param.t \notin {"num", "bool", "null", "undefined"}

\* points - $1 in SQL: NULL as soon as one side is NULL.
SqlMinus(p, param) ==
    IF p.t = "null" \/ param.t \in {"null", "undefined"}
    THEN Null
    ELSE Num(p.n - ToNumber(param).n)

Thrown == [t |-> "thrown", n |-> 0, kids |-> NoKids]

(***************************************************************************)
(* Cost resolution.  Thrown stands for a TypeError raised while the cost   *)
(* is computed (settings.costs undefined).                                 *)
(***************************************************************************)
\* part_000: no fallback for the image and speech prices.
cost_part_000(settings, body) ==
    LET costs == Prop(settings, "costs") IN
    CASE body.type = "generateImages" ->
            IF Throws(costs) THEN Thrown
            ELSE IF body.rw THEN Prop(costs, "imageCreate_noWatermark")
                 ELSE Prop(costs, "imageCreate")
      [] body.type = "generateContent" /\ body.model = "image" ->
            IF Throws(costs) THEN Thrown
            ELSE IF body.rw THEN Prop(costs, "imageEdit_noWatermark")
                 ELSE Prop(costs, "imageEdit")
      [] body.type = "generateContent" /\ body.model = "tts" ->
            IF Throws(costs) THEN Thrown
            ELSE JsTimes(Num(CeilHundred(body.len)), Prop(costs, "textToSpeech"))
      [] body.type = "rewrite" ->
            IF Throws(costs) THEN Thrown
            ELSE Coalesce(Prop(costs, "contentRewrite"), Num(0))
      [] body.type = "generate-tweets" ->
            IF Throws(costs) THEN Thrown
            ELSE Coalesce(Prop(costs, "tweetGenerator"), Num(0))
      [] OTHER -> Num(0)

\* A resolver that never looks at removeWatermark.
cost_ignoring_watermark(settings, body) ==
    LET costs == Prop(settings, "costs") IN
    CASE Throws(costs) -> Thrown
      [] body.type = "generateImages" -> Coalesce(Prop(costs, "imageCreate"), Num(5))
      [] body.type = "generateContent" /\ body.model = "image" ->
            Coalesce(Prop(costs, "imageEdit"), Num(2))
      [] body.type = "generateContent" /\ body.model = "tts" ->
            JsTimes(Num(CeilHundred(body.len)), Coalesce(Prop(costs, "textToSpeech"), Num(1)))
      [] body.type = "rewrite" -> Coalesce(Prop(costs, "contentRewrite"), Num(1))
      [] body.type = "generate-tweets" -> Coalesce(Prop(costs, "tweetGenerator"), Num(1))
      [] OTHER -> Num(0)

\* part_002: every price has a hard-coded fallback.
cost_part_002(settings, body) ==
    LET costs == Prop(settings, "costs") IN
    CASE body.type = "generateImages" ->
            IF Throws(costs) THEN Thrown
            ELSE IF body.rw THEN Coalesce(Prop(costs, "imageCreate_noWatermark"), Num(15))
                 ELSE Coalesce(Prop(costs, "imageCreate"), Num(5))
      [] body.type = "generateContent" /\ body.model = "image" ->
            IF Throws(costs) THEN Thrown
            ELSE IF body.rw THEN Coalesce(Prop(costs, "imageEdit_noWatermark"), Num(8))
                 ELSE Coalesce(Prop(costs, "imageEdit"), Num(2))
      [] body.type = "generateContent" /\ body.model = "tts" ->
            IF Throws(costs) THEN Thrown
            ELSE JsTimes(Num(CeilHundred(body.len)),
                         Coalesce(Prop(costs, "textToSpeech"), Num(1)))
      [] body.type = "rewrite" ->
            IF Throws(costs) THEN Thrown
            ELSE Coalesce(Prop(costs, "contentRewrite"), Num(1))
      [] body.type = "generate-tweets" ->
            IF Throws(costs) THEN Thrown
            ELSE Coalesce(Prop(costs, "tweetGenerator"), Num(1))
      [] OTHER -> Num(0)

\* part_001 and server_b: const { cost, payload } = req.body.
cost_client(body) == Num(body.cost)

(***************************************************************************)
(* What the handler makes of the provider's answer:                        *)
(*   "artifact" / "text"  a result with a payload                          *)
(*   "empty"    a result object without a usable payload                   *)
(*   "none"     result left undefined                                      *)
(*   "throw"    an exception, caught by the handler's catch                *)
(***************************************************************************)
\* part_000 494-535 and part_002 610-647 read the answer without a check.
normalize_unchecked(body, resp) ==
    CASE resp \in {"threw", "safety"} -> "throw"
      [] body.type = "generateImages" ->
            \* response.generatedImages[0].image.imageBytes
            CASE resp = "ok" -> "artifact"
              [] OTHER -> "throw"
      [] body.type = "generateContent" /\ body.model \in {"image", "tts"} ->
            \* candidates[0].content.parts.find(p => p.inlineData).inlineData
            IF resp = "ok" THEN "artifact" ELSE "throw"
      [] OTHER ->
            \* { text: response.text }
            IF resp = "ok" THEN "text" ELSE "empty"

\* part_001 577-611 and server_b 845-907 check blockReason and the payload.
normalize_checked(body, resp) == IF resp = "ok" THEN "artifact" ELSE "throw"

\* Whether the handler calls the provider for this payload.type at all.
InvokesProvider(snap, body) ==
    CASE snap = "part_000" ->
            body.type \in {"generateImages", "generateContent", "rewrite", "generate-tweets"}
      [] snap = "part_002" ->
            body.type \in {"generateImages", "generateContent", "rewrite", "generate-tweets"}
      [] OTHER -> body.type \in {"generateImages", "generateContent"}

(***************************************************************************)
(* The configuration as the handlers read it.                              *)
(***************************************************************************)
\* getSettings() of part_000 / part_001, currentSettings of part_002, and
\* the direct read of server_b; dbOk says whether the SELECT succeeds.
getSettings(dbOk) ==
    IF cache # Null THEN cache
    ELSE IF ~dbOk \/ persisted = NoRow THEN defaultSettings
    ELSE persisted

\* A cache fill that stores the compiled-in defaults.
fillsWithDefaults(dbOk) == defaultSettings

\* The cache once getSettings() has returned.
getSettingsFill(dbOk) ==
    CASE cache # Null -> cache
      [] ~dbOk -> cache
      [] snapshot = "part_000" -> getSettings(dbOk)
      [] snapshot = "part_001" -> IF persisted = NoRow THEN Null ELSE persisted
      [] OTHER -> cache

\* An INSERT on a table without a key on id.
insertUnconstrained(n) == n + 1

\* The rows with id = 1 after INSERT INTO settings (id, ...) VALUES (1, $1)
\* ON CONFLICT (id) DO NOTHING (or DO UPDATE) on a table that held n of them.
insertSettings(n) == IF n = 0 THEN 1 ELSE n

\* The stored row once getSettings() has returned: part_000 (and the
\* settings read of server_b) insert the defaults where no row exists.
getSettingsRow(dbOk) ==
    IF cache = Null /\ dbOk /\ persisted = NoRow /\ snapshot \in {"part_000", "server_b"}
    THEN defaultSettings
    ELSE persisted

\* settings.maintenance?.enabled
maintenanceEnabled(settings) == Truthy(Prop(Prop(settings, "maintenance"), "enabled"))

(***************************************************************************)
(* The metered calls.  A call is a record:                                 *)
(*   pc      "idle", "authed" (part_000: token verified), "checked" (the   *)
(*           balance check passed), "calling" (provider awaited), "done"   *)
(*   user, body   who calls, and req.body                                  *)
(*   snap    req.user.points as read by the authentication middleware      *)
(*   cost    the amount the handler debits                                 *)
(*   price   the price of the request under the configuration in force     *)
(*           when the call was priced                                      *)
(*   before  the locked row's points when the transaction read / wrote it  *)
(*   resp    the provider's answer, "none" while it was not invoked        *)
(*   status  the HTTP status sent, 0 while none;  result, the body's result*)
(*   txn     what the handler issued on its pooled connection: "BEGIN",    *)
(*           "COMMIT", "ROLLBACK" and "release", in that order             *)
(***************************************************************************)
\* No request answered yet.
NoReply ==
    [ep |-> "none", who |-> "none", tok |-> "none", dbOk |-> TRUE, maint |-> FALSE, passed |-> FALSE,
     status |-> 0, doc |-> Null, sig |-> FALSE, event |-> "none"]

IdleCall ==
    [pc |-> "idle", user |-> "u1", body |-> Payload("unknown", "none", FALSE, 0, 0),
     snap |-> Null, cost |-> Num(0), price |-> Num(0), before |-> Null,
     resp |-> "none", status |-> 0, result |-> "none", msg |-> "none",
     ustatus |-> "active", invoked |-> 0, txn |-> <<>>]

\* The call ends with this status; a transaction it had open is rolled back.
Finish(c, rec, status) ==
    /\ call' = [call EXCEPT ![c] = [rec EXCEPT !.pc = "done", !.status = status]]
    /\ lock' = [lock EXCEPT ![rec.user] = IF @ = c THEN 0 ELSE @]

\* The price the server resolves for a request from the costs section: the
\* snapshot's own resolver, and for the snapshots that have none the
\* resolver of part_002.
resolvedPrice(settings, body) ==
    IF snapshot = "part_000" THEN cost_part_000(settings, body)
    ELSE cost_part_002(settings, body)

\* A lookup that takes the caller for an administrator when the query fails.
trustsOnError(tok, dbOk) == ~dbOk \/ (tok \in session /\ is_admin(tok))

\* Whether the bearer token tok belongs to an administrator, as the gate's
\* lookup in the users table finds out; a failed query verifies nothing.
adminVerified(tok, dbOk) == dbOk /\ tok \in session /\ is_admin(tok)

\* part_001 252-299, mounted for every path: the request goes on to its handler.
maintenanceMiddleware(settings, path, tok, dbOk) ==
    \/ ~maintenanceEnabled(settings)
    \/ tok # "none" /\ adminVerified(tok, dbOk)
    \/ path \in {"config", "login"}

\* A gate that knows no administrators: it is open only while maintenance is off.
gateWithoutBypass(settings, tok, dbOk) == ~maintenanceEnabled(settings)

\* part_002 290-327, mounted on some routes: the request goes on to its handler.
maintenanceCheck(settings, tok, dbOk) ==
    \/ ~maintenanceEnabled(settings)
    \/ tok # "none" /\ adminVerified(tok, dbOk)

\* The request arrives and runs up to the handler's first await on the
\* connection pool: gate (part_001), authentication, and, where the handler
\* checks req.user.points, the pricing and the balance check.
Request(c, u, b) ==
    /\ call[c].pc = "idle"
    /\ IF c = 1 THEN TRUE ELSE call[c - 1].pc # "idle"
    /\ LET rec == [call[c] EXCEPT !.user = u, !.body = b, !.snap = points[u],
                                  !.ustatus = IF u \in banned THEN "banned" ELSE "active",
                                  !.price = resolvedPrice(getSettings(TRUE), b)]
       IN CASE snapshot = "part_000" ->
                  \* authenticateToken verifies the JWT, no database read
                  /\ call' = [call EXCEPT ![c] = [rec EXCEPT !.pc = "authed", !.snap = Null]]
                  /\ UNCHANGED <<cache, lock>>
            [] snapshot = "part_002" ->
                  LET cost == cost_part_002(cache, b) IN
                  /\ IF cost = Thrown THEN Finish(c, rec, 400)
                     ELSE IF JsLess(Num(0), cost) /\ JsLess(rec.snap, cost)
                     THEN Finish(c, [rec EXCEPT !.cost = cost], 402)
                     ELSE /\ call' = [call EXCEPT ![c] =
                                         [rec EXCEPT !.pc = "checked", !.cost = cost]]
                          /\ UNCHANGED lock
                  /\ UNCHANGED cache
            [] snapshot = "part_001" ->
                  /\ cache' = getSettingsFill(TRUE)
                  /\ IF ~maintenanceMiddleware(getSettings(TRUE), "generate", u, TRUE) THEN Finish(c, rec, 503)
                     ELSE IF JsLess(rec.snap, cost_client(b))
                     THEN Finish(c, [rec EXCEPT !.cost = cost_client(b)], 402)
                     ELSE /\ call' = [call EXCEPT ![c] =
                                         [rec EXCEPT !.pc = "checked", !.cost = cost_client(b)]]
                          /\ UNCHANGED lock
            [] OTHER ->
                  /\ IF JsLess(rec.snap, cost_client(b))
                     THEN Finish(c, [rec EXCEPT !.cost = cost_client(b)], 402)
                     ELSE /\ call' = [call EXCEPT ![c] =
                                         [rec EXCEPT !.pc = "checked", !.cost = cost_client(b)]]
                          /\ UNCHANGED lock
                  /\ UNCHANGED cache
    /\ UNCHANGED <<snapshot, rows, pending, banned, checkout, claimed, persisted, points, initial, operations, puts, frontVars>>

\* A debit of whatever the operation costs when the UPDATE is sent.
debitAtCurrentPrice(rec) ==
    IF snapshot \in {"part_000", "part_002"}
    THEN resolvedPrice(getSettings(TRUE), rec.body)
    ELSE rec.cost

\* The $1 of UPDATE users SET points = points - $1: the local variable cost,
\* assigned before the balance check.
debitAmount(rec) == rec.cost

\* COMMIT of a transaction that debited rec.cost from the locked row.
Commit(c, rec, result) ==
    /\ points' = [points EXCEPT ![rec.user] = SqlMinus(@, debitAmount(rec))]
    /\ operations' = IF snapshot = "part_002"
                     THEN Append(operations, [user |-> rec.user, type |-> rec.body.type,
                                              cost |-> rec.cost])
                     ELSE operations
    /\ Finish(c, [rec EXCEPT !.result = result, !.txn = @ \o <<"COMMIT", "release">>], 200)

\* An error path that leaves the row of the operations table behind: the
\* INSERT made outside the transaction that is rolled back.
RollbackKeepingRow(c, rec, status) ==
    /\ Finish(c, [rec EXCEPT !.txn = @ \o <<"ROLLBACK", "release">>], status)
    /\ operations' = Append(operations, [user |-> rec.user, type |-> rec.body.type,
                                         cost |-> rec.cost])
    /\ UNCHANGED points

\* ROLLBACK, then the error response.
Rollback(c, rec, status) ==
    /\ Finish(c, [rec EXCEPT !.txn = @ \o <<"ROLLBACK", "release">>], status)
    /\ UNCHANGED <<points, operations>>

\* A statement that locks the row of user u does not wait: no transaction in
\* progress holds that row.
neverWaits(u) == TRUE

rowLockFree(u) == lock[u] = 0

\* part_000 465-492: BEGIN, SELECT ... FOR UPDATE, getSettings(), the price,
\* the balance check on the locked row, and the dispatch on payload.type.
LockAndPrice(c) ==
    /\ snapshot = "part_000"
    /\ call[c].pc = "authed"
    /\ rowLockFree(call[c].user)
    /\ cache' = getSettingsFill(TRUE)
    /\ persisted' = getSettingsRow(TRUE)
    /\ LET cost == cost_part_000(getSettings(TRUE), call[c].body)
           rec == [call[c] EXCEPT !.before = points[call[c].user], !.cost = cost,
                                  !.price = resolvedPrice(getSettings(TRUE), call[c].body),
                                  !.txn = <<"BEGIN">>]
       IN IF cost = Thrown THEN Rollback(c, rec, 500)
          ELSE IF JsLess(rec.before, cost) THEN Rollback(c, rec, 402)
          ELSE IF ~InvokesProvider(snapshot, rec.body) THEN Rollback(c, rec, 400)
          ELSE /\ call' = [call EXCEPT ![c] = [rec EXCEPT !.pc = "calling", !.invoked = @ + 1]]
               /\ lock' = [lock EXCEPT ![rec.user] = c]
               /\ UNCHANGED <<points, operations>>
    /\ UNCHANGED <<snapshot, rows, pending, banned, checkout, claimed, initial, puts, frontVars>>

\* part_002 596-607, part_001 574-576, server.js 841-843: BEGIN and the
\* UPDATE, which waits for the row lock; then the dispatch on payload.type.
Debit(c) ==
    /\ snapshot # "part_000"
    /\ call[c].pc = "checked"
    /\ rowLockFree(call[c].user)
    /\ LET rec == [call[c] EXCEPT !.before = points[call[c].user], !.txn = <<"BEGIN">>]
       IN IF SqlRejects(rec.cost) THEN Rollback(c, rec, 500)
          ELSE IF InvokesProvider(snapshot, rec.body)
          THEN /\ call' = [call EXCEPT ![c] = [rec EXCEPT !.pc = "calling", !.invoked = @ + 1]]
               /\ lock' = [lock EXCEPT ![rec.user] = c]
               /\ UNCHANGED <<points, operations>>
          ELSE IF snapshot = "part_002"
          THEN Commit(c, rec, "none")
          ELSE Rollback(c, rec, 500)
    /\ UNCHANGED <<snapshot, rows, pending, banned, checkout, claimed, persisted, cache, initial, puts, frontVars>>

\* The error response of the catch block after an exception in the provider
\* branch: the status, and what the message tells the client:
\*   "blocked"   the request was blocked for safety
\*   "nooutput"  the provider returned nothing usable
\*   "generic"   a fixed generic text, or the text of whatever was thrown
catchReply(snap, resp) ==
    CASE snap = "part_000" ->
            \* error.message.includes("SAFETY") ? 400 : 500 with a fixed text
            IF resp = "safety" THEN [status |-> 400, msg |-> "blocked"]
            ELSE [status |-> 500, msg |-> "generic"]
      [] snap = "part_002" ->
            \* `AI generation failed: ${error.message}`; a response read
            \* without a check ends in a TypeError
            IF resp = "safety" THEN [status |-> 500, msg |-> "blocked"]
            ELSE [status |-> 500, msg |-> "generic"]
      [] OTHER ->
            \* err.message: the handler's own texts for blockReason and for
            \* a missing payload, else the text thrown by the SDK
            CASE resp \in {"blocked", "safety"} -> [status |-> 500, msg |-> "blocked"]
              [] resp \in {"empty", "nodata"} -> [status |-> 500, msg |-> "nooutput"]
              [] OTHER -> [status |-> 500, msg |-> "generic"]

\* A handler that calls the provider a second time after a failure.
retryOnce(snap) == 1

\* How many times the handler calls the provider again after a failed call:
\* the catch blocks roll back and answer, none loops back to the call.
retries(snap) == 0

\* What the handler makes of the provider's answer, per snapshot.
normalize(snap, body, resp) ==
    IF snap \in ServerPriced
    THEN normalize_unchecked(body, resp)
    ELSE normalize_checked(body, resp)

\* The provider answers; the handler builds the result and commits, or an
\* exception takes it to its catch block.
Respond(c, resp) ==
    /\ call[c].pc = "calling"
    /\ LET rec == [call[c] EXCEPT !.resp = resp]
           result == normalize(snapshot, rec.body, resp)
       IN IF result = "throw" /\ rec.invoked <= retries(snapshot)
          THEN /\ call' = [call EXCEPT ![c] = [rec EXCEPT !.invoked = @ + 1]]
               /\ UNCHANGED <<points, operations, lock>>
          ELSE IF result = "throw"
          THEN Rollback(c, [rec EXCEPT !.msg = catchReply(snapshot, resp).msg],
                        catchReply(snapshot, resp).status)
          \* part_000 debits only now: the UPDATE may still be rejected
          ELSE IF SqlRejects(rec.cost) THEN Rollback(c, rec, 500)
          ELSE Commit(c, rec, result)
    /\ UNCHANGED <<snapshot, rows, pending, banned, checkout, claimed, persisted, cache, initial, puts, frontVars>>

\* The administrator stores a new document: an UPDATE of row 1, which
\* changes nothing where the row does not exist, then the cache handling of
\* the snapshot; the route is open to a logged-in administrator only.
\* With dbOk false the UPDATE fails and the handler answers 500.
WriteSettings(who, tok, doc, dbOk) ==
    /\ puts < MaxPuts
    /\ puts' = puts + 1
    /\ IF ~dbOk THEN UNCHANGED <<persisted, cache>>
       ELSE CASE snapshot = "part_000" ->
                    \* settingsCache = null; await getSettings()
                    /\ persisted' = IF persisted = NoRow THEN defaultSettings ELSE doc
                    /\ cache' = persisted'
              [] snapshot = "part_001" ->
                    \* invalidateSettingsCache()
                    /\ persisted' = IF persisted = NoRow THEN NoRow ELSE doc
                    /\ cache' = Null
              [] snapshot = "part_002" ->
                    \* currentSettings = newSettings
                    /\ persisted' = IF persisted = NoRow THEN NoRow ELSE doc
                    /\ cache' = doc
              [] OTHER ->
                    /\ persisted' = IF persisted = NoRow THEN NoRow ELSE doc
                    /\ cache' = cache
    /\ reply' = [NoReply EXCEPT !.ep = "put", !.who = who, !.tok = tok, !.dbOk = dbOk,
                                 !.passed = TRUE,
                                 !.status = IF dbOk THEN 200 ELSE 500, !.doc = doc]
    /\ UNCHANGED <<snapshot, pending, banned, checkout, claimed, points, initial, lock, operations, call, session, docs, merged>>
    /\ rows' = IF persisted = NoRow /\ persisted' # NoRow THEN insertSettings(rows) ELSE rows

\* The logged-in administrator stores a new document.
AdminPut(doc, dbOk) ==
    /\ "adm" \in session
    /\ WriteSettings("adm", "adm", doc, dbOk)

\* The administrator bans the user u: PUT /api/admin/users/:id with
\* { points: 0, status: 'banned' }. The UPDATE waits for the row lock, adds
\* nothing to the balance and leaves the user's token as it is; part_000 has
\* no such route, and an administrator cannot ban their own account.
Ban(u) ==
    /\ snapshot # "part_000"
    /\ "adm" \in session
    /\ u # "adm"
    /\ u \notin banned
    /\ lock[u] = 0
    /\ banned' = banned \cup {u}
    /\ UNCHANGED <<snapshot, rows, pending, checkout, claimed, persisted, cache, points, initial, lock, operations, puts, call,
                   session, reply, docs, merged>>

InitBalances == {3, 10}

Init ==
    /\ snapshot \in Snapshots
    /\ banned = {}
    /\ pending = NoQueries
    /\ checkout = NoCheckouts
    /\ claimed = NoClaims
    /\ persisted = defaultSettings
    /\ cache = IF snapshot \in {"part_001", "part_002"} THEN defaultSettings ELSE Null
    /\ \E b \in InitBalances : points = [u \in Users |-> IF u = "u1" THEN Num(b) ELSE Num(10)]
    /\ initial = points
    /\ lock = [u \in Users |-> 0]
    /\ operations = <<>>
    /\ puts = 0
    /\ call = [c \in Calls |-> IdleCall]
    /\ session = Users
    /\ reply = NoReply
    /\ docs = <<defaultSettings, defaultSettings>>
    /\ merged = Null
    /\ rows = IF persisted = NoRow THEN 0 ELSE 1

Next ==
    \/ \E c \in Calls, u \in Users, b \in Bodies : Request(c, u, b)
    \/ \E c \in Calls : LockAndPrice(c)
    \/ \E c \in Calls : Debit(c)
    \/ \E c \in Calls, resp \in Responses : Respond(c, resp)
    \/ \E doc \in PutDocs : AdminPut(doc, TRUE)
    \/ \E u \in Users : Ban(u)

Spec == Init /\ [][Next]_vars

\* The steps the server takes by itself are taken; when the provider
\* answers, and whether it answers at all, is not up to the server, and no
\* handler sets a timer on the provider call.
SpecLive ==
    /\ Spec
    /\ WF_vars(\E c \in Calls : LockAndPrice(c))
    /\ WF_vars(\E c \in Calls : Debit(c))

(***************************************************************************)
(* The front door: the requests that are not metered calls, with the       *)
(* maintenance gate in front of them, the configuration read and write,    *)
(* storage failures and restarts of the process.                           *)
(***************************************************************************)
Endpoints == {"login", "settings", "config", "generate"}

\* The Authorization header: none, a token the server does not know, or a
\* user's token (usable once the user has logged in).
Tokens == {"none", "stale"} \cup Users

\* The routes part_002 mounts maintenanceCheck on.
GatedRoutes == {"settings", "status", "register", "login"}

\* The configuration in force, as the running snapshot reads it.
effective(dbOk) == IF snapshot = "part_002" THEN cache ELSE getSettings(dbOk)

\* The gate lets the request through to its handler.
gatePasses(path, tok, dbOk) ==
    CASE snapshot = "part_001" -> maintenanceMiddleware(getSettings(dbOk), path, tok, dbOk)
      [] snapshot = "part_002" ->
            path \in GatedRoutes => maintenanceCheck(cache, tok, dbOk)
      [] OTHER -> TRUE

\* The settings part_002 puts in its 503 body: the maintenance section (and the theme).
maintenanceNotice(settings) ==
    IF isObject(settings) /\ "maintenance" \in DOMAIN settings.kids
    THEN Obj([k \in {"maintenance"} |-> settings.kids[k]])
    ELSE Obj(NoKids)

\* The document in the gate's 503 body, Null where it carries none.
gateBody(path, dbOk) ==
    CASE snapshot = "part_001" -> IF path = "settings"
                                  THEN getSettings(dbOk) ELSE Null
      [] snapshot = "part_002" -> maintenanceNotice(cache)
      [] OTHER -> Null

\* GET /api/settings once past the gate: <<status, document>>.
readSettings(tok, dbOk) ==
    CASE snapshot = "part_000" ->
            \* the handler checks the maintenance flag itself; the JWT needs no lookup
            IF maintenanceEnabled(getSettings(dbOk)) /\ ~(tok \in session /\ is_admin(tok))
            THEN <<503, getSettings(dbOk)>>
            ELSE <<200, getSettings(dbOk)>>
      [] snapshot = "part_001" -> <<200, getSettings(dbOk)>>
      [] snapshot = "part_002" -> IF Truthy(cache) THEN <<200, cache>> ELSE <<500, Null>>
      [] OTHER ->
            \* server_b reads the row, inserting the defaults where it is missing
            IF ~dbOk THEN <<500, Null>>
            ELSE IF persisted = NoRow THEN <<200, defaultSettings>>
            ELSE <<200, persisted>>

\* A request to path with the token tok; who is the user whose e-mail and
\* password a login request carries.
Front(path, tok, who, dbOk) ==
    /\ tok \in Users => tok \in session
    /\ LET gateReads == snapshot = "part_001"
           handlerReads == path = "settings" /\ snapshot \in {"part_000", "part_001", "server_b"}
           pass == gatePasses(path, tok, dbOk)
           base == [ep |-> path, who |-> "none", tok |-> tok, dbOk |-> dbOk,
                    maint |-> maintenanceEnabled(effective(dbOk)),
                    passed |-> pass, status |-> 0, doc |-> Null, sig |-> FALSE,
                    event |-> "none"]
       IN /\ cache' = IF gateReads \/ (pass /\ handlerReads)
                      THEN getSettingsFill(dbOk) ELSE cache
          /\ persisted' = IF pass /\ handlerReads THEN getSettingsRow(dbOk) ELSE persisted
          /\ IF ~pass
             THEN /\ reply' = [base EXCEPT !.status = 503, !.doc = gateBody(path, dbOk)]
                  /\ UNCHANGED session
             ELSE CASE path = "login" ->
                          IF dbOk /\ who \in banned /\ (snapshot = "part_002" => ~is_admin(who))
                          THEN /\ reply' = [base EXCEPT !.status = 403]
                               /\ UNCHANGED session
                          ELSE IF dbOk
                          THEN /\ session' = session \cup {who}
                               /\ reply' = [base EXCEPT !.status = 200]
                          ELSE /\ reply' = [base EXCEPT !.status = 500]
                               /\ UNCHANGED session
                    [] path = "settings" ->
                          /\ reply' = [base EXCEPT !.status = readSettings(tok, dbOk)[1],
                                                   !.doc = readSettings(tok, dbOk)[2],
                                                   !.passed = readSettings(tok, dbOk)[1] # 503]
                          /\ UNCHANGED session
                    [] path = "config" ->
                          /\ reply' = [base EXCEPT !.status = 200]
                          /\ UNCHANGED session
                    [] OTHER ->
                          \* handed on to the handler of the route
                          /\ reply' = base
                          /\ UNCHANGED session
    /\ UNCHANGED <<snapshot, pending, banned, checkout, claimed, points, initial, lock, operations, puts, call, docs, merged>>
    /\ rows' = IF persisted = NoRow /\ persisted' # NoRow THEN insertSettings(rows) ELSE rows

\* The user the authentication middleware finds for the token: part_001 and
\* part_002 look the token up in the users table, part_000 verifies the
\* signature of a JWT issued at login, and server_b takes the token for the
\* user's id and looks that row up.
authenticates(tok) ==
    IF snapshot = "server_b" THEN tok \in Users ELSE tok \in session

\* authenticate, then requireAdmin / isAdmin / adminRequired.
requireAdmin(tok) == authenticates(tok) /\ is_admin(tok)

\* Who may send a request, and the tokens a caller can put in the header:
\* none, one the server does not know, the caller's own once logged in;
\* server_b's tokens are the user ids, which anybody can write down.
Callers == Users \cup {"anon"}

Presentable(who) ==
    {"none", "stale"}
        \cup (IF who \in session THEN {who} ELSE {})
        \cup (IF snapshot = "server_b" THEN Users ELSE {})

\* The caller who sends a settings write with the token tok: the gate of
\* part_001, authentication, the administrator check, then the handler.
PutSettings(who, tok, doc, dbOk) ==
    /\ tok \in Presentable(who)
    /\ IF ~gatePasses("admin-settings", tok, TRUE)
       THEN /\ reply' = [NoReply EXCEPT !.ep = "put", !.who = who, !.tok = tok, !.dbOk = dbOk,
                                        !.maint = TRUE, !.status = 503, !.doc = doc]
            /\ cache' = getSettingsFill(TRUE)
            /\ UNCHANGED <<snapshot, rows, pending, banned, checkout, claimed, persisted, points, initial, lock, operations, puts,
                           call, session, docs, merged>>
       ELSE IF ~requireAdmin(tok)
       THEN /\ reply' = [NoReply EXCEPT !.ep = "put", !.who = who, !.tok = tok, !.dbOk = dbOk,
                                        !.status = IF tok = "none" THEN 401 ELSE 403,
                                        !.doc = doc]
            /\ cache' = IF snapshot = "part_001" THEN getSettingsFill(TRUE) ELSE cache
            /\ UNCHANGED <<snapshot, rows, pending, banned, checkout, claimed, persisted, points, initial, lock, operations, puts,
                           call, session, docs, merged>>
       ELSE WriteSettings(who, tok, doc, dbOk)

\* getSettings() of part_000 and part_001 on a cache miss, up to its await:
\* the SELECT is sent and reads the row as committed at that moment.
GetSettingsQuery(g) ==
    /\ snapshot \in {"part_000", "part_001"}
    /\ cache = Null
    /\ pending[g] = NoQuery
    /\ pending' = [pending EXCEPT ![g] = persisted]
    /\ UNCHANGED <<snapshot, rows, banned, checkout, claimed, persisted, cache, points, initial,
                   lock, operations, puts, call, session, reply, docs, merged>>

\* The SELECT of that getSettings() resolves: settingsCache = the row read;
\* where there was no row part_000 inserts the defaults and caches them, and
\* part_001 returns the defaults without caching.
GetSettingsResolve(g) ==
    /\ pending[g] # NoQuery
    /\ pending' = [pending EXCEPT ![g] = NoQuery]
    /\ cache' = IF pending[g] # NoRow THEN pending[g]
                ELSE IF snapshot = "part_000" THEN defaultSettings ELSE cache
    /\ persisted' = IF pending[g] = NoRow /\ snapshot = "part_000" /\ persisted = NoRow
                    THEN defaultSettings ELSE persisted
    /\ rows' = IF pending[g] = NoRow /\ snapshot = "part_000" THEN insertSettings(rows) ELSE rows
    /\ reply' = [NoReply EXCEPT !.ep = "get", !.status = 200,
                                !.doc = IF pending[g] = NoRow THEN defaultSettings
                                        ELSE pending[g]]
    /\ UNCHANGED <<snapshot, banned, checkout, claimed, points, initial, lock, operations,
                   puts, call, session, docs, merged>>

\* fetchSettingsFromDB of part_002 239-257.
fetchSettingsFromDB(row, dbOk) ==
    IF ~dbOk THEN defaultSettings
    ELSE IF row # NoRow /\ Truthy(row) THEN deepMerge(defaultSettings, row)
    ELSE defaultSettings

\* The process restarts.  part_002 truncates the users (every token dies)
\* and resets the stored document, which may fail (resetOk), then loads
\* currentSettings; part_001 seeds the row and primes the cache; part_000
\* starts with an empty cache.
Restart(resetOk, dbOk) ==
    /\ CASE snapshot = "part_002" ->
              \* the reset of startServer, then the INSERT of fetchSettingsFromDB
              \* where its SELECT found no row
              /\ persisted' = IF resetOk \/ (dbOk /\ persisted = NoRow)
                              THEN defaultSettings ELSE persisted
              /\ cache' = fetchSettingsFromDB(persisted', dbOk)
              /\ session' = IF resetOk THEN {} ELSE session
         [] snapshot = "part_001" ->
              /\ persisted' = IF dbOk /\ persisted = NoRow THEN defaultSettings ELSE persisted
              /\ cache' = IF dbOk THEN persisted' ELSE Null
              /\ UNCHANGED session
         [] OTHER ->
              /\ cache' = Null
              /\ UNCHANGED <<persisted, session>>
    /\ reply' = [NoReply EXCEPT !.ep = "restart", !.dbOk = dbOk]
    /\ rows' = IF persisted = NoRow /\ persisted' # NoRow THEN insertSettings(rows) ELSE rows
    \* the requests in flight die with the process
    /\ pending' = NoQueries
    /\ UNCHANGED <<snapshot, banned, checkout, claimed, points, initial, lock, operations,
                   puts, call, docs, merged>>

\* The service as a deployment finds it: the row may be missing (first run
\* of part_000) or hold a document written by an older version.
InitGate ==
    /\ snapshot \in Snapshots
    /\ banned = {}
    /\ pending = NoQueries
    /\ checkout = NoCheckouts
    /\ claimed = NoClaims
    /\ persisted \in CASE snapshot = "part_000" -> {NoRow, defaultSettings, OldPrices}
                       [] snapshot = "part_002" -> {defaultSettings}
                       [] OTHER -> {defaultSettings, OldPrices}
    /\ cache = CASE snapshot = "part_001" -> persisted
                 [] snapshot = "part_002" -> fetchSettingsFromDB(persisted, TRUE)
                 [] OTHER -> Null
    /\ points = [u \in Users |-> Num(10)]
    /\ initial = points
    /\ lock = [u \in Users |-> 0]
    /\ operations = <<>>
    /\ puts = 0
    /\ call = [c \in Calls |-> IdleCall]
    /\ session = {}
    /\ reply = NoReply
    /\ docs = <<defaultSettings, defaultSettings>>
    /\ merged = Null
    /\ rows = IF persisted = NoRow THEN 0 ELSE 1

NextGate ==
    \/ \E path \in Endpoints, tok \in Tokens, who \in Users, dbOk \in BOOLEAN :
          Front(path, tok, who, dbOk)
    \/ \E who \in Callers, tok \in Tokens, doc \in PutDocs, dbOk \in BOOLEAN :
          PutSettings(who, tok, doc, dbOk)
    \/ \E resetOk \in BOOLEAN, dbOk \in BOOLEAN : Restart(resetOk, dbOk)
    \/ GetSettingsQuery(1)
    \/ GetSettingsResolve(1)

SpecGate == InitGate /\ [][NextGate]_vars

(***************************************************************************)
(* The first accesses to the configuration: the row may be missing, two    *)
(* requests may be inside getSettings() at once.                           *)
(***************************************************************************)
\* The service on a database whose settings table may hold no row yet;
\* part_001 and server.js seed the row in the transaction that creates the
\* table.  The administrator is logged in.
InitSeed ==
    /\ snapshot \in Snapshots
    /\ banned = {}
    /\ pending = NoQueries
    /\ checkout = NoCheckouts
    /\ claimed = NoClaims
    /\ persisted \in IF snapshot \in {"part_000", "part_002"}
                     THEN {NoRow, defaultSettings, OldPrices}
                     ELSE {defaultSettings, OldPrices}
    /\ cache = CASE snapshot = "part_001" -> persisted
                 [] snapshot = "part_002" -> fetchSettingsFromDB(persisted, TRUE)
                 [] OTHER -> Null
    /\ points = [u \in Users |-> Num(10)]
    /\ initial = points
    /\ lock = [u \in Users |-> 0]
    /\ operations = <<>>
    /\ puts = 0
    /\ call = [c \in Calls |-> IdleCall]
    /\ session = {"adm"}
    /\ reply = NoReply
    /\ docs = <<defaultSettings, defaultSettings>>
    /\ merged = Null
    /\ rows = IF persisted = NoRow THEN 0 ELSE 1

NextSeed ==
    \/ \E g \in Getters : GetSettingsQuery(g)
    \/ \E g \in Getters : GetSettingsResolve(g)
    \/ \E doc \in PutDocs, dbOk \in BOOLEAN : PutSettings("adm", "adm", doc, dbOk)
    \/ \E resetOk \in BOOLEAN, dbOk \in BOOLEAN : Restart(resetOk, dbOk)

SpecSeed == InitSeed /\ [][NextSeed]_vars

(***************************************************************************)
(* The read on a cache miss, for any default and any persisted document.   *)
(***************************************************************************)
\* Nesting depth of the documents studied.
MaxDepth == 2

MergeKeys == {"a", "b"}

\* The objects over MergeKeys whose values are taken from vals.
ObjectsOver(vals) ==
    {Obj(f) : f \in UNION {[K -> vals] : K \in SUBSET MergeKeys}}

\* The documents of depth at most d with the given leaves.
RECURSIVE DocsOfDepth(_, _)
DocsOfDepth(d, leaves) ==
    IF d = 1 THEN ObjectsOver(leaves)
    ELSE ObjectsOver(leaves \cup DocsOfDepth(d - 1, leaves))

\* Default documents hold numbers and arrays; persisted ones other numbers,
\* other arrays and null.
DefaultDocs == DocsOfDepth(MaxDepth, {Num(1), Arr(1)})

PersistedDocs == DocsOfDepth(MaxDepth, {Num(2), Arr(2), Null})

\* The snapshots that read the stored document; "server_a" is
\* src/server.js 237-582.
MergeSnapshots == Snapshots \cup {"server_a"}

\* What the read of the stored document P returns, D being the defaults.
readOnMiss(D, P) ==
    CASE snapshot = "part_002" -> deepMerge(D, P)
      [] snapshot = "server_a" -> spreadMerge(D, P)
      [] OTHER -> P

ReadOnMiss ==
    /\ merged = Null
    /\ merged' = readOnMiss(docs[1], docs[2])
    /\ UNCHANGED <<snapshot, rows, pending, banned, checkout, claimed, persisted, cache, points, initial, lock, operations, puts,
                   call, session, reply, docs>>

InitMerge ==
    /\ snapshot \in MergeSnapshots
    /\ banned = {}
    /\ pending = NoQueries
    /\ checkout = NoCheckouts
    /\ claimed = NoClaims
    /\ docs \in DefaultDocs \X PersistedDocs
    /\ merged = Null
    /\ persisted = docs[2]
    /\ cache = Null
    /\ points = [u \in Users |-> Num(10)]
    /\ initial = points
    /\ lock = [u \in Users |-> 0]
    /\ operations = <<>>
    /\ puts = 0
    /\ call = [c \in Calls |-> IdleCall]
    /\ session = {}
    /\ reply = NoReply
    /\ rows = IF persisted = NoRow THEN 0 ELSE 1

NextMerge == ReadOnMiss

SpecMerge == InitMerge /\ [][NextMerge]_vars

(***************************************************************************)
(* The price resolution alone, over many price lists and requests.         *)
(***************************************************************************)
\* Longest text priced.
MaxLen == 250

Lengths == {0, 1, 99, 100, 101, MaxLen}

PriceKeys ==
    {"imageEdit", "imageCreate", "textToSpeech", "imageEdit_noWatermark",
     "imageCreate_noWatermark", "contentRewrite", "tweetGenerator"}

\* Price lists: every key is absent, or holds one of two prices.
PriceDocs ==
    {Obj([costs |-> Obj(f)]) :
        f \in UNION {[K -> {Num(0), Num(3)}] : K \in SUBSET PriceKeys}}

PriceBodies ==
    {Payload(k[1], k[2], rw, 0, 0) :
        k \in {<<"generateImages", "imagen">>, <<"generateContent", "image">>,
               <<"rewrite", "none">>, <<"generate-tweets", "none">>},
        rw \in BOOLEAN}
    \cup {Payload("generateContent", "tts", rw, n, 0) : rw \in BOOLEAN, n \in Lengths}

\* The cost the handler computes for the request b.
resolve(b) ==
    CASE snapshot = "part_000" -> cost_part_000(getSettings(TRUE), b)
      [] snapshot = "part_002" -> cost_part_002(cache, b)
      [] OTHER -> cost_client(b)

\* The lines of the handler that resolve the price of the request b; the
\* getSettings() of part_000 fills its cache on the way.
ResolvePrice(b) ==
    /\ call[1].pc = "idle"
    /\ call' = [call EXCEPT ![1] =
                  [@ EXCEPT !.pc = "priced", !.body = b,
                            !.cost = resolve(b),
                            !.price = resolvedPrice(effective(TRUE), b)]]
    /\ cache' = getSettingsFill(TRUE)
    /\ persisted' = getSettingsRow(TRUE)
    /\ rows' = IF persisted = NoRow /\ persisted' # NoRow THEN insertSettings(rows) ELSE rows
    /\ UNCHANGED <<snapshot, pending, banned, checkout, claimed, points, initial, lock, operations, puts,
                   session, reply, docs, merged>>

\* The service after the administrator stored the price list.
InitPrice ==
    /\ snapshot \in Snapshots
    /\ banned = {}
    /\ pending = NoQueries
    /\ checkout = NoCheckouts
    /\ claimed = NoClaims
    /\ persisted \in PriceDocs
    /\ cache = IF snapshot \in {"part_001", "part_002"} THEN persisted ELSE Null
    /\ points = [u \in Users |-> Num(10)]
    /\ initial = points
    /\ lock = [u \in Users |-> 0]
    /\ operations = <<>>
    /\ puts = 0
    /\ call = [c \in Calls |-> IdleCall]
    /\ session = Users
    /\ reply = NoReply
    /\ docs = <<defaultSettings, defaultSettings>>
    /\ merged = Null
    /\ rows = IF persisted = NoRow THEN 0 ELSE 1

NextPrice == \E b \in PriceBodies : ResolvePrice(b)

SpecPrice == InitPrice /\ [][NextPrice]_vars

(***************************************************************************)
(* The other writers of users.points: payment webhook, administrator,      *)
(* point deduction, daily reward.                                          *)
(***************************************************************************)
\* Deliveries of one checkout.session.completed event.
MaxDeliveries == 2

\* points + $1 in SQL: NULL as soon as one side is NULL.
SqlPlus(p, param) ==
    IF p.t = "null" \/ param.t \in {"null", "undefined"}
    THEN Null
    ELSE Num(p.n + ToNumber(param).n)

\* The buyer pays: the session is completed at the payment provider.
CompleteCheckout(s) ==
    /\ checkout[s].state = "open"
    /\ checkout' = [checkout EXCEPT ![s].state = "completed"]
    /\ UNCHANGED <<snapshot, rows, pending, banned, claimed, persisted, cache, points, initial, lock,
                   operations, puts, call, session, reply, docs, merged>>

\* The event types the payment provider sends.
EventTypes == {"checkout.session.completed", "payment_intent.succeeded"}

\* A verification that accepts whatever is posted.
acceptsAnyEvent(sigOk, secretSet) == TRUE

\* stripe.webhooks.constructEvent(req.body, sig, webhookSecret) returns the
\* event: the signature is the payment provider's and the secret is configured.
constructEvent(sigOk, secretSet) == sigOk /\ secretSet

\* POST /stripe-webhook with an event of the given type about the session s:
\* 400 where the verification throws; for checkout.session.completed
\* UPDATE users SET points = points + $1, then 200 whether or not the UPDATE
\* succeeded; 200 for every other type. The payment provider signs a
\* completed event for completed sessions only.
StripeWebhook(s, sigOk, secretSet, type, dbOk) ==
    LET genuine == sigOk /\ secretSet
        answer == [NoReply EXCEPT !.ep = "webhook", !.sig = genuine, !.event = type]
    IN
    /\ genuine /\ type = "checkout.session.completed" => checkout[s].state = "completed"
    /\ IF ~constructEvent(sigOk, secretSet)
       THEN /\ reply' = [answer EXCEPT !.status = 400]
            /\ UNCHANGED <<checkout, points>>
       ELSE IF type # "checkout.session.completed"
       THEN /\ reply' = [answer EXCEPT !.status = 200]
            /\ UNCHANGED <<checkout, points>>
       ELSE /\ checkout[s].delivered < MaxDeliveries
            /\ lock[CheckoutMeta(s).user] = 0
            /\ checkout' = [checkout EXCEPT ![s].delivered = @ + 1,
                                            ![s].credited = IF dbOk THEN @ + 1 ELSE @]
            /\ points' = IF dbOk
                         THEN [points EXCEPT ![CheckoutMeta(s).user] =
                                  SqlPlus(@, Num(CheckoutMeta(s).points))]
                         ELSE points
            /\ reply' = [answer EXCEPT !.tok = s, !.dbOk = dbOk, !.status = 200]
    /\ UNCHANGED <<snapshot, rows, pending, banned, claimed, persisted, cache, initial, lock, operations,
                   puts, call, session, docs, merged>>

\* What the administrator may send as points in PUT /api/admin/users/:id:
\* a grant, a deduction, or nothing (a body that carries the status only).
Adjustments == {Num(5), Num(-20), Undefined}

\* PUT /api/admin/users/:id with { points, status: 'active' } by the
\* logged-in administrator: points = points + $1.
AdminAdjust(u, delta) ==
    /\ snapshot # "part_000"
    /\ "adm" \in session
    /\ puts < MaxPuts
    /\ lock[u] = 0
    /\ puts' = puts + 1
    /\ points' = [points EXCEPT ![u] = SqlPlus(@, delta)]
    /\ reply' = [NoReply EXCEPT !.ep = "adjust", !.who = "adm", !.tok = "adm", !.status = 200]
    /\ UNCHANGED <<snapshot, rows, pending, banned, checkout, claimed, persisted, cache, initial, lock,
                   operations, call, session, docs, merged>>

\* server_b 807-812: POST /api/users/deduct-points is authenticated and
\* compares the amount with req.user.points, the balance authentication read.
DeductCheck(c, u, amount) ==
    /\ snapshot = "server_b"
    /\ call[c].pc = "idle"
    /\ IF c = 1 THEN TRUE ELSE call[c - 1].pc # "idle"
    /\ LET rec == [call[c] EXCEPT !.user = u, !.snap = points[u], !.cost = Num(amount),
                                  !.body = Payload("deduct-points", "none", FALSE, 0, amount)]
       IN call' = [call EXCEPT ![c] =
                     IF JsLess(rec.snap, rec.cost)
                     THEN [rec EXCEPT !.pc = "done", !.status = 402]
                     ELSE [rec EXCEPT !.pc = "deducting"]]
    /\ UNCHANGED <<snapshot, rows, pending, banned, checkout, claimed, persisted, cache, points, initial,
                   lock, operations, puts, session, reply, docs, merged>>

\* server_b 814-820: UPDATE users SET points = points - $1 and the response.
DeductUpdate(c) ==
    /\ call[c].pc = "deducting"
    /\ lock[call[c].user] = 0
    /\ points' = [points EXCEPT ![call[c].user] = SqlMinus(@, call[c].cost)]
    /\ call' = [call EXCEPT ![c] = [@ EXCEPT !.pc = "done", !.status = 200,
                                             !.before = points[call[c].user]]]
    /\ UNCHANGED <<snapshot, rows, pending, banned, checkout, claimed, persisted, cache, initial, lock,
                   operations, puts, session, reply, docs, merged>>

\* The points of the daily reward: dailyRewardPoints of the costs section, 10
\* where it is missing or falsy.
rewardPoints(settings) ==
    LET costs == Prop(settings, "costs")
        stored == IF Throws(costs) \/ ~isObject(costs) THEN Undefined
                  ELSE Prop(costs, "dailyRewardPoints")
    IN IF Truthy(stored) THEN stored ELSE Num(10)

\* POST /api/claim-daily-reward of part_001 648-672 and part_002 532-551 up
\* to its UPDATE: the authentication reads the user's row, and the handler
\* answers 429 where the last_daily_claim of that row is less than a day old.
ClaimCheck(c, u) ==
    /\ snapshot \in {"part_001", "part_002"}
    /\ u \in session
    /\ call[c].pc = "idle"
    /\ IF c = 1 THEN TRUE ELSE call[c - 1].pc # "idle"
    /\ LET rec == [call[c] EXCEPT !.user = u, !.snap = Bool(claimed[u] > 0),
                                  !.before = points[u],
                                  !.body = Payload("claim-daily-reward", "none", FALSE, 0, 0)]
       IN call' = [call EXCEPT ![c] =
                     IF Truthy(rec.snap)
                     THEN [rec EXCEPT !.pc = "done", !.status = 429]
                     ELSE [rec EXCEPT !.pc = "claiming"]]
    /\ UNCHANGED <<snapshot, rows, pending, banned, checkout, claimed, persisted, cache, points, initial,
                   lock, operations, puts, session, reply, docs, merged>>

\* The rest of the handler: UPDATE users SET points = points + $1,
\* last_daily_claim = NOW() WHERE id = $2, and the response; 500 where the
\* query fails.
ClaimUpdate(c, dbOk) ==
    /\ call[c].pc = "claiming"
    /\ lock[call[c].user] = 0
    /\ cache' = IF snapshot = "part_001" THEN getSettingsFill(dbOk) ELSE cache
    /\ IF dbOk
       THEN /\ points' = [points EXCEPT ![call[c].user] =
                             SqlPlus(@, rewardPoints(effective(TRUE)))]
            /\ claimed' = [claimed EXCEPT ![call[c].user] = @ + 1]
            /\ call' = [call EXCEPT ![c] = [@ EXCEPT !.pc = "done", !.status = 200]]
       ELSE /\ call' = [call EXCEPT ![c] = [@ EXCEPT !.pc = "done", !.status = 500]]
            /\ UNCHANGED <<points, claimed>>
    /\ UNCHANGED <<snapshot, rows, pending, banned, checkout, persisted, initial, lock, operations, puts,
                   session, reply, docs, merged>>

InitLedger ==
    /\ snapshot \in Snapshots
    /\ banned = {}
    /\ pending = NoQueries
    /\ checkout = NoCheckouts
    /\ claimed = NoClaims
    /\ persisted = defaultSettings
    /\ cache = IF snapshot \in {"part_001", "part_002"} THEN defaultSettings ELSE Null
    /\ \E b \in InitBalances : points = [u \in Users |-> IF u = "u1" THEN Num(b) ELSE Num(10)]
    /\ initial = points
    /\ lock = [u \in Users |-> 0]
    /\ operations = <<>>
    /\ puts = 0
    /\ call = [c \in Calls |-> IdleCall]
    /\ session = Users
    /\ reply = NoReply
    /\ docs = <<defaultSettings, defaultSettings>>
    /\ merged = Null
    /\ rows = IF persisted = NoRow THEN 0 ELSE 1

DeductAmounts == {2, 4}

NextLedger ==
    \/ \E s \in Sessions : CompleteCheckout(s)
    \/ \E s \in Sessions, dbOk \in BOOLEAN :
          StripeWebhook(s, TRUE, TRUE, "checkout.session.completed", dbOk)
    \/ \E u \in Users, delta \in Adjustments : AdminAdjust(u, delta)
    \/ \E c \in Calls, u \in Users, amount \in DeductAmounts : DeductCheck(c, u, amount)
    \/ \E c \in Calls : DeductUpdate(c)
    \/ \E c \in Calls, u \in Users : ClaimCheck(c, u)
    \/ \E c \in Calls, dbOk \in BOOLEAN : ClaimUpdate(c, dbOk)

SpecLedger == InitLedger /\ [][NextLedger]_vars

\* The webhook endpoint alone, open to whoever posts to it: events of every
\* type, signed by the payment provider or not, with and without a secret.
NextWebhook ==
    \/ \E s \in Sessions : CompleteCheckout(s)
    \/ \E s \in Sessions, sigOk \in BOOLEAN, secretSet \in BOOLEAN, type \in EventTypes,
          dbOk \in BOOLEAN : StripeWebhook(s, sigOk, secretSet, type, dbOk)

SpecWebhook == InitLedger /\ [][NextWebhook]_vars

(***************************************************************************)
(* Registration, the other handler that works inside a transaction.        *)
(***************************************************************************)
\* The bonus a referral pays: costs.referralBonus, which part_000 and
\* part_002 replace by 50 where it is missing or falsy.
referralBonus(settings) ==
    LET costs == Prop(settings, "costs")
        stored == IF Throws(costs) THEN Thrown
                  ELSE IF ~isObject(costs) THEN Undefined
                  ELSE Prop(costs, "referralBonus")
    IN CASE snapshot = "part_001" -> stored
         [] snapshot = "part_002" /\ stored = Thrown -> Num(50)
         [] stored = Thrown -> Thrown
         [] Truthy(stored) -> stored
         [] OTHER -> Num(50)

\* POST /api/register with a user name and e-mail that are taken or not, a
\* referral code that is the referrer's ("none": no such code), and a
\* database that answers every query or fails one.  part_000 and part_001
\* work on a pooled connection from BEGIN on; part_002 looks for the
\* existing user before it takes the connection; server.js has no
\* transaction.
Register(c, taken, referrer, dbOk) ==
    /\ call[c].pc = "idle"
    /\ IF c = 1 THEN TRUE ELSE call[c - 1].pc # "idle"
    /\ referrer \in Users => rowLockFree(referrer)
    /\ LET bonus == referralBonus(effective(dbOk))
           pooled == snapshot \in {"part_000", "part_001"}
                     \/ (snapshot = "part_002" /\ dbOk /\ ~taken)
           rec == [call[c] EXCEPT !.body = Payload("register", "none", FALSE, 0, 0),
                                  !.user = IF referrer \in Users THEN referrer ELSE "u1",
                                  !.txn = IF pooled THEN <<"BEGIN">> ELSE <<>>]
           fails == ~dbOk \/ (snapshot # "server_b" /\ referrer \in Users /\ bonus.t # "num")
           ends(stmt) == [rec EXCEPT !.txn = IF pooled THEN @ \o <<stmt, "release">> ELSE @]
       IN /\ cache' = IF snapshot \in {"part_000", "part_001"} /\ (snapshot = "part_000" => ~taken)
                      THEN getSettingsFill(dbOk) ELSE cache
          /\ IF snapshot = "part_000" /\ dbOk /\ taken
             \* return res.status(409) inside the try: finally releases the client
             THEN /\ call' = [call EXCEPT ![c] =
                                 [rec EXCEPT !.pc = "done", !.status = 409,
                                             !.txn = @ \o <<"release">>]]
                  /\ UNCHANGED points
             ELSE IF fails
             THEN /\ call' = [call EXCEPT ![c] =
                                 [ends("ROLLBACK") EXCEPT !.pc = "done", !.status = 500]]
                  /\ UNCHANGED points
             ELSE IF taken
             THEN /\ call' = [call EXCEPT ![c] =
                                 [ends("ROLLBACK") EXCEPT !.pc = "done", !.status = 409]]
                  /\ UNCHANGED points
             ELSE /\ call' = [call EXCEPT ![c] =
                                 [ends("COMMIT") EXCEPT !.pc = "done", !.status = 201]]
                  /\ points' = IF referrer \in Users /\ snapshot # "server_b"
                               THEN [points EXCEPT ![referrer] = SqlPlus(@, bonus)]
                               ELSE points
    /\ UNCHANGED <<snapshot, rows, pending, banned, checkout, claimed, persisted, initial, lock, operations,
                   puts, frontVars>>

\* The metered calls together with the registrations: the handlers that
\* work inside a transaction on a pooled connection.
NextPool ==
    \/ Next
    \/ \E c \in Calls, taken \in BOOLEAN, referrer \in {"u1", "none"}, dbOk \in BOOLEAN :
          Register(c, taken, referrer, dbOk)

SpecPool == Init /\ [][NextPool]_vars

(***************************************************************************)
(* Properties of the metered calls.                                        *)
(***************************************************************************)
Succeeded(c) == call[c].pc = "done" /\ call[c].status = 200

\* The sum of the prices charged to the calls 1..n of user u that succeeded.
RECURSIVE SumPaid(_, _)
SumPaid(u, n) ==
    IF n = 0 THEN 0
    ELSE SumPaid(u, n - 1)
         + IF call[n].user = u /\ Succeeded(n) /\ call[n].cost.t = "num"
           THEN call[n].cost.n
           ELSE 0

\* C1: whatever metered calls a user makes, concurrently or not, the
\* committed balance is never negative and never below the initial balance
\* minus the sum of the prices of the calls that succeeded.
C1_NoOverspend ==
    \A u \in Users :
        points[u].t = "num" =>
            /\ points[u].n >= 0
            /\ points[u].n >= initial[u].n - SumPaid(u, MaxCalls)

\* The step in which call c sends its response.
Finishes(c) == call[c].pc # "done" /\ call'[c].pc = "done"

\* C2: a call whose provider answer was a block, no usable output or an
\* error ends with the user's committed balance as it was.
C2_NoSilentCharge ==
    [][\A c \in Calls :
          Finishes(c) /\ call'[c].resp \in Responses \ {"ok"}
              => points'[call'[c].user] = points[call'[c].user]]_vars

\* C3: the amount a successful call debited is the price resolved on the
\* server from the costs section for the request; req.body.cost plays no part.
C3_ServerResolvedPrice ==
    \A c \in Calls : Succeeded(c) => call[c].cost = call[c].price

\* C4: the committed balance of a user changes only in the step that ends
\* a successful call, and then from balanceBefore to balanceBefore - price;
\* a call that fails leaves it as it was.
C4_TwoEndStates ==
    [][/\ \A u \in Users :
            points'[u] # points[u] =>
                \E c \in Calls :
                    /\ Finishes(c) /\ call'[c].user = u /\ call'[c].status = 200
                    /\ call'[c].cost.t = "num" /\ points[u].t = "num"
                    /\ points'[u] = Num(points[u].n - call'[c].cost.n)
       /\ \A c \in Calls :
            Finishes(c) =>
                IF call'[c].status = 200
                THEN /\ call'[c].cost.t = "num"
                     /\ points'[call'[c].user] = Num(call'[c].before.n - call'[c].cost.n)
                ELSE points'[call'[c].user] = points[call'[c].user]]_vars

\* The step in which call c has the provider invoked or its debit committed.
Proceeds(c) ==
    /\ call[c].pc \notin {"calling", "done"}
    /\ \/ call'[c].pc = "calling"
       \/ call'[c].pc = "done" /\ call'[c].status = 200

\* C5: a call whose user's current balance is below the price never has
\* the provider invoked nor the balance changed: it is answered 402.
C5_InsufficientBalance ==
    [][\A c \in Calls :
          /\ Proceeds(c) => ~JsLess(points[call'[c].user], call'[c].cost)
          /\ Finishes(c) /\ call'[c].status = 402
                => points' = points /\ call'[c].resp = "none"]_vars

\* C6: while the stored document has maintenance.enabled = true, a metered
\* call of a non-administrator is answered 503 with the balance unchanged,
\* and an administrator's call is not stopped by the gate.
C6_MaintenanceGatesMeteredCalls ==
    [][\A c \in Calls :
          call[c].pc = "idle" /\ call'[c].pc # "idle" /\ maintenanceEnabled(persisted)
              => IF is_admin(call'[c].user)
                 THEN call'[c].status # 503
                 ELSE call'[c].status = 503 /\ points' = points]_vars

(***************************************************************************)
(* Properties of the gate and of the configuration served.                 *)
(***************************************************************************)
\* C7: while maintenance is enabled, a login request that carries no token
\* reaches the login handler, and a configuration read that carries no
\* token is answered with a document that holds the maintenance section.
C7_AllowList ==
    reply.maint /\ reply.tok = "none" =>
        /\ reply.ep = "login" => reply.passed
        /\ reply.ep = "settings" => isObject(reply.doc) /\ maintenanceEnabled(reply.doc)

\* The last request carried the valid token of an administrator while
\* maintenance was enabled.
AdminDuringMaintenance == reply.maint /\ reply.tok \in Users /\ is_admin(reply.tok)

RECURSIVE Covers(_, _)
Covers(D, M) ==
    /\ isObject(M)
    /\ \A k \in DOMAIN D.kids :
          /\ k \in DOMAIN M.kids
          /\ isObject(D.kids[k]) => Covers(D.kids[k], M.kids[k])

\* C9: the document the settings endpoint serves, and the document the
\* prices are resolved from, has every key of the compiled-in defaults at
\* every nesting level, whatever reads, writes, storage failures and
\* restarts came before.
C9_DefaultsBackfilled ==
    /\ reply.ep = "settings" /\ reply.status = 200 => Covers(defaultSettings, reply.doc)
    /\ snapshot \in ServerPriced => Covers(defaultSettings, effective(TRUE))

\* M is what the claim says the merge of P over D is.
RECURSIVE MergeLaw(_, _, _)
MergeLaw(D, P, M) ==
    /\ isObject(M)
    /\ DOMAIN M.kids = DOMAIN D.kids \cup DOMAIN P.kids
    /\ \A k \in DOMAIN P.kids :
          IF isObject(P.kids[k]) /\ isObject(Prop(D, k))
          THEN MergeLaw(D.kids[k], P.kids[k], M.kids[k])
          ELSE M.kids[k] = P.kids[k]
    /\ \A k \in DOMAIN D.kids \ DOMAIN P.kids : M.kids[k] = D.kids[k]

\* C10: the document read on a cache miss keeps every persisted value,
\* has the default value for every default key the persisted document
\* lacks, at every level where both are objects, and takes a persisted
\* scalar or array whole.
C10_DeepMergeResult == merged # Null => MergeLaw(docs[1], docs[2], merged)

\* C11: after a settings write that was answered 200, the stored document
\* is the document written, and the next read returns that document
\* deep-merged over the compiled-in defaults.
C11_PutThenGet ==
    reply.ep = "put" /\ reply.status = 200 =>
        /\ persisted = reply.doc
        /\ effective(TRUE) = deepMerge(defaultSettings, reply.doc)

\* C12: a settings read whose storage query fails is still answered with a
\* document, the compiled-in defaults where nothing is cached (part_002
\* reads the storage at startup: there the defaults become current), and a
\* settings write whose UPDATE fails is answered with an error and leaves
\* the stored and the cached document as they were.
C12_FailureSemantics ==
    [][/\ reply'.ep = "settings" /\ ~reply'.dbOk =>
            /\ reply'.status # 500
            /\ isObject(reply'.doc)
            /\ cache' = Null => reply'.doc = defaultSettings
       /\ reply'.ep = "restart" /\ ~reply'.dbOk /\ snapshot = "part_002" =>
            cache' = defaultSettings
       /\ puts' # puts /\ ~reply'.dbOk =>
            /\ reply'.status = 500
            /\ persisted' = persisted
            /\ cache' = cache]_vars

\* payload.type is none of the operations the service offers.
UnknownOperation(c) ==
    call[c].body.type \notin {"generateImages", "generateContent", "rewrite", "generate-tweets"}

\* C13: a call whose operation is unknown never has the provider invoked,
\* never gets a success response, and leaves no row in the operations table.
C13_UnknownOperationRejected ==
    /\ \A c \in Calls :
          call[c].pc # "idle" /\ UnknownOperation(c) =>
              /\ call[c].pc # "calling"
              /\ call[c].resp = "none"
              /\ call[c].status # 200
    /\ \A i \in DOMAIN operations :
          operations[i].type \in {"generateImages", "generateContent", "rewrite", "generate-tweets"}

\* The key of the costs section that prices a fixed-price request.
FixedPriceKey(body) ==
    CASE body.type = "generateImages" ->
            IF body.rw THEN "imageCreate_noWatermark" ELSE "imageCreate"
      [] body.type = "generateContent" /\ body.model = "image" ->
            IF body.rw THEN "imageEdit_noWatermark" ELSE "imageEdit"
      [] body.type = "rewrite" -> "contentRewrite"
      [] body.type = "generate-tweets" -> "tweetGenerator"
      [] OTHER -> "none"

\* The price list the priced request was resolved from.
StoredCosts == Prop(persisted, "costs")

\* C14: the price resolved for an image create, an image edit, a rewrite
\* or a tweet generation is the integer stored under its key of the costs
\* section; removeWatermark selects the _noWatermark key for the two image
\* kinds and changes nothing for the other two.
C14_FixedPrice ==
    call[1].pc = "priced" /\ FixedPriceKey(call[1].body) \in DOMAIN StoredCosts.kids =>
        call[1].price = StoredCosts.kids[FixedPriceKey(call[1].body)]

\* A watermark-free image was priced from a list that prices the two keys differently.
C14_Witness ==
    /\ call[1].pc = "priced" /\ call[1].body.type = "generateImages" /\ call[1].body.rw
    /\ Prop(StoredCosts, "imageCreate") = Num(0)
    /\ Prop(StoredCosts, "imageCreate_noWatermark") = Num(3)
    /\ call[1].price = Num(3)

\* The least number of blocks of 100 characters that hold n characters.
Blocks(n) == CHOOSE k \in 0..n : 100 * k >= n /\ (k = 0 \/ 100 * (k - 1) < n)

\* C15: the price resolved for a speech request on a text of n characters,
\* the unit price u being stored, is ceil(n / 100) * u.
C15_SpeechCeiling ==
    /\ call[1].pc = "priced"
    /\ call[1].body.type = "generateContent" /\ call[1].body.model = "tts"
    /\ "textToSpeech" \in DOMAIN StoredCosts.kids
    => call[1].price = Num(Blocks(call[1].body.len) * StoredCosts.kids["textToSpeech"].n)

\* A text of 101 characters was priced at two units.
C15_Witness ==
    /\ call[1].pc = "priced"
    /\ call[1].body.type = "generateContent" /\ call[1].body.model = "tts"
    /\ call[1].body.len = 101
    /\ Prop(StoredCosts, "textToSpeech") = Num(3)
    /\ call[1].price = Num(6)

\* C16: a call that ends in success carries exactly one result, an artifact
\* or a text, and leaves the committed balance of its user at the balance
\* before the transaction minus the resolved price.
C16_SuccessEnvelope ==
    [][\A c \in Calls :
          Finishes(c) /\ call'[c].status = 200 =>
              /\ call'[c].result \in {"artifact", "text"}
              /\ points'[call'[c].user] = SqlMinus(call'[c].before, call'[c].price)]_vars

\* C17: a call whose provider signalled a safety block, in its response or
\* by rejecting, ends as a blocked-content outcome, not as a success and
\* not as a generic failure, and leaves every balance as it was.
C17_ContentBlocked ==
    [][\A c \in Calls :
          Finishes(c) /\ call'[c].resp \in {"blocked", "safety"} =>
              /\ call'[c].status # 200
              /\ call'[c].msg = "blocked"
              /\ points' = points]_vars

\* C18: a call whose provider completed without a usable payload ends as a
\* failure and charges nothing, and no call ends in success with an empty
\* or undefined result.
C18_NoOutputProduced ==
    [][\A c \in Calls :
          Finishes(c) =>
              /\ call'[c].resp \in {"empty", "nodata"} =>
                    call'[c].status # 200 /\ points' = points
              /\ call'[c].status = 200 => call'[c].result \notin {"empty", "none"}]_vars

\* The caller of the last settings write is a logged-in administrator.
WriterIsAdmin(r) == r.who \in session /\ is_admin(r.who)

\* C19: a settings write sent by a caller who is no logged-in administrator
\* is not answered with success and leaves the persisted document and the
\* configuration in force as they were.
C19_AdminOnlyWrite ==
    [][reply'.ep = "put" /\ ~WriterIsAdmin(reply') =>
          /\ reply'.status # 200
          /\ persisted' = persisted
          /\ effective(TRUE)' = effective(TRUE)]_vars

\* C20: a metered call sent by an account whose status is banned, with
\* whatever token, is rejected at once and takes nothing from the balance.
C20_BannedRejected ==
    \A c \in Calls :
        call[c].pc # "idle" /\ call[c].ustatus = "banned" =>
            /\ call[c].pc = "done"
            /\ call[c].status \in {401, 403}
            /\ call[c].before = Null

\* C21: the committed balance of every user is an integer that is not negative.
C21_BalanceNonNegative ==
    \A u \in Users : points[u].t = "num" /\ points[u].n >= 0

\* C22: the points of a completed checkout session are credited exactly once
\* however many times its completed event is delivered; checked here for the
\* deliveries that reach storage, each of which credits: never more than once.
C22_CreditedOnce ==
    \A s \in Sessions : checkout[s].credited <= 1

\* C23: a call that went on to the provider or committed its debit was
\* admitted on the balance read under the row lock: that balance, not the one
\* authentication attached to the request, is not below the amount charged.
C23_DecisionUnderLock ==
    \A c \in Calls :
        call[c].body.type # "deduct-points" /\ (call[c].pc = "calling" \/ Succeeded(c)) =>
            ~JsLess(call[c].before, call[c].cost)

\* Call c is between acquiring the row lock and its commit or rollback.
InSection(c) == call[c].pc = "calling"

\* C24: at most one metered call of a user is between acquiring the row lock
\* and its commit or rollback, the balance it found at the lock is the one
\* committed when it got the lock, and a call waiting for the lock of a user
\* whose row is free proceeds whatever calls of other users are in progress.
C24_PerUserSerialization ==
    /\ \A c \in Calls, d \in Calls :
          InSection(c) /\ InSection(d) /\ call[c].user = call[d].user => c = d
    /\ \A c \in Calls :
          InSection(c) => lock[call[c].user] = c /\ call[c].before = points[call[c].user]
    /\ \A c \in Calls :
          call[c].pc \in {"authed", "checked"} /\ call[c].body.type # "deduct-points"
              /\ lock[call[c].user] = 0
          => ENABLED (LockAndPrice(c) \/ Debit(c))

\* Calls of the two users are in the section at the same time.
C24_Witness ==
    \E c \in Calls, d \in Calls :
        InSection(c) /\ InSection(d) /\ call[c].user # call[d].user

\* C25: in the snapshots that cache the document on a miss, the cache never
\* holds a document other than the one last committed, so that a get() after
\* the last write returns that write's document, also when a get() that had
\* read storage populated the cache after the write's invalidation.
C25_CacheFresh ==
    snapshot \in {"part_000", "part_001"} /\ cache # Null /\ persisted # NoRow =>
        cache = persisted

\* C26: every call that has begun its transaction and waits for the provider
\* eventually ends, its transaction committed or rolled back and its lock
\* released, whether or not the provider ever answers.
C26_BoundedResolution ==
    \A c \in Calls : (call[c].pc = "calling") ~> (call[c].pc = "done" /\ lock[call[c].user] # c)

\* C27: the price resolved for a supported request, from whatever price list
\* the administrator stored, is an integer that is not negative.
C27_PriceDomain ==
    call[1].pc = "priced" =>
        call[1].price.t = "num" /\ call[1].price.n >= 0

\* The endpoints behind the maintenance gate of the running snapshot.
GatedHere(path) ==
    CASE snapshot = "part_001" -> path \notin {"config", "login"}
      [] snapshot = "part_002" -> path \in GatedRoutes
      [] snapshot = "part_000" -> path = "settings"
      [] OTHER -> FALSE

\* The document last committed, the defaults where no row exists.
CurrentDocument == IF persisted = NoRow THEN defaultSettings ELSE persisted

\* C28: the decision of the gate on a request to a gated endpoint depends on
\* nothing but maintenance.enabled of the document last committed and the
\* caller's privilege: the request is rejected exactly when maintenance is
\* enabled there and the caller is no logged-in administrator.
C28_GateFollowsDocument ==
    [][reply'.ep \in Endpoints /\ pending' = pending /\ reply'.dbOk /\ GatedHere(reply'.ep) =>
          (reply'.passed <=>
              \/ ~maintenanceEnabled(CurrentDocument)
              \/ reply'.tok \in session /\ is_admin(reply'.tok))]_vars

\* C29: within one metered request the provider is invoked at most once, and
\* a call whose provider call was rejected has ended with an error response.
C29_NoRetry ==
    \A c \in Calls :
        /\ call[c].invoked <= 1
        /\ call[c].resp \in {"threw", "safety"} =>
              call[c].pc = "done" /\ call[c].status \in {400, 500}

\* A call whose provider call was rejected has ended after one invocation.
C29_Witness ==
    \E c \in Calls :
        call[c].pc = "done" /\ call[c].resp = "threw" /\ call[c].invoked = 1
            /\ call[c].status = 500

\* C30: the operations table gains a row exactly in the step that commits the
\* debit of a call, the row of that call; a call that ends on a failure path
\* leaves the table as it was.
C30_AuditOnSuccessOnly ==
    [][/\ \A c \in Calls :
            Finishes(c) /\ call'[c].body.type # "deduct-points" =>
                IF call'[c].status = 200 /\ snapshot = "part_002"
                THEN operations' = Append(operations, [user |-> call'[c].user,
                                                       type |-> call'[c].body.type,
                                                       cost |-> call'[c].cost])
                ELSE operations' = operations
       /\ operations' # operations =>
            \E c \in Calls : Finishes(c) /\ call'[c].status = 200]_vars

\* One call committed and left its row, another failed at the provider and
\* left none.
C30_Witness ==
    /\ Len(operations) = 1
    /\ \E c \in Calls, d \in Calls :
          /\ Succeeded(c) /\ call[c].result = "artifact"
          /\ call[d].pc = "done" /\ call[d].resp = "threw" /\ call[d].status = 500

\* C31: a webhook request whose signature is not the payment provider's, or
\* that arrives while no webhook secret is configured, or whose event is not
\* checkout.session.completed, changes no balance.
C31_VerifiedBeforeCredit ==
    [][\A s \in Sessions, sigOk \in BOOLEAN, secretSet \in BOOLEAN, type \in EventTypes,
          dbOk \in BOOLEAN :
            /\ StripeWebhook(s, sigOk, secretSet, type, dbOk)
            /\ ~(sigOk /\ secretSet /\ type = "checkout.session.completed")
            => points' = points /\ checkout' = checkout]_vars

\* A webhook request with a bad signature was answered 400 after a session
\* had completed, and the buyer's balance is the initial one.
C31_Witness ==
    /\ reply.ep = "webhook" /\ ~reply.sig /\ reply.status = 400
    /\ reply.event = "checkout.session.completed"
    /\ \E s \in Sessions : checkout[s].state = "completed" /\ checkout[s].credited = 0
    /\ points = initial

C34_OneGrantPerDay ==
    \A u \in Users : claimed[u] <= 1

\* C35: the price a metered call compared with the balance stays that
\* call's price until the call ends, and a call that succeeds debits exactly
\* that price, also when the administrator stored new prices meanwhile.
C35_PriceStable ==
    [][\A c \in Calls :
          /\ call[c].pc \in {"checked", "calling"} => call'[c].cost = call[c].cost
          /\ Finishes(c) /\ call'[c].status = 200 =>
                points'[call[c].user] = SqlMinus(points[call[c].user], call[c].cost)]_vars

\* A call succeeded at the price it was checked against although the
\* administrator's write, committed during the call, had changed the price.
C35_Witness ==
    \E c \in Calls :
        /\ snapshot \in {"part_000", "part_002"}
        /\ Succeeded(c)
        /\ puts = 1
        /\ call[c].cost # resolvedPrice(getSettings(TRUE), call[c].body)
        /\ call[c].cost.t = "num" /\ call[c].cost.n > 0
        /\ points[call[c].user] = SqlMinus(call[c].before, call[c].cost)

\* C36: a handler that has ended issued, on the pooled connection it took,
\* BEGIN, then exactly one COMMIT or ROLLBACK, then one release, or took no
\* connection at all; and it holds no row lock.
C36_TransactionHygiene ==
    \A c \in Calls :
        call[c].pc = "done" =>
            /\ call[c].txn \in {<<>>, <<"BEGIN", "COMMIT", "release">>,
                                <<"BEGIN", "ROLLBACK", "release">>}
            /\ \A u \in Users : lock[u] # c

\* C37: while the gate finds maintenance enabled, a request to an endpoint
\* behind the gate whose administrator lookup fails, or whose token is
\* absent, unknown or expired, is answered 503 and does not reach its
\* handler.
C37_GateFailsClosed ==
    /\ snapshot \in {"part_001", "part_002"}
    /\ reply.ep \in Endpoints /\ GatedHere(reply.ep)
    /\ reply.maint
    /\ ~reply.dbOk \/ reply.tok \notin Users
    => ~reply.passed /\ reply.status = 503

\* The logged-in administrator's request met a failing lookup during
\* maintenance and was answered 503.
C37_Witness ==
    /\ snapshot \in {"part_001", "part_002"}
    /\ reply.ep = "settings" /\ reply.maint
    /\ reply.tok = "adm" /\ "adm" \in session /\ ~reply.dbOk
    /\ ~reply.passed /\ reply.status = 503

\* C38: a read of the configuration that meets a failing storage query
\* serves the defaults without caching them in place of the stored
\* document: a request leaves the cache as it was, and a start whose read
\* fails leaves the cache empty (or equal to what the storage holds), so
\* that the next read goes to the storage.
C38_DegradedNotCached ==
    [][/\ \A path \in Endpoints, tok \in Tokens, who \in Users :
             Front(path, tok, who, FALSE) => cache' = cache
       /\ \A resetOk \in BOOLEAN :
             Restart(resetOk, FALSE) =>
                 \/ cache' = Null
                 \/ persisted' # NoRow /\ cache' = deepMerge(defaultSettings, persisted')]_vars
====
